---------------------------- MODULE Spec2Model ----------------------------
(***************************************************************************)
(* Bounding volumes of the collision library: the axis aligned bounding    *)
(* box of sources/axis-aligned-bounding-box.cpp, and the volumes it meets  *)
(* in isIntersecting (sphere, oriented box, capsule).                      *)
(*                                                                         *)
(* Numbers.  The program computes in IEEE single precision.  Every value   *)
(* of the model is a small integer; sums, differences, products, fabs and  *)
(* comparisons of such values are exact in single precision, so the        *)
(* integer operations below are the program's on these inputs.             *)
(*                                                                         *)
(* Indices.  glm vectors and matrices are indexed from 0 and a mat4 is a   *)
(* sequence of columns: transform[3] is the translation column.  Tuples    *)
(* here are indexed from 1, so the program's m[j][i] is m[j+1][i+1] and    *)
(* the translation column is transform[4].                                 *)
(***************************************************************************)
EXTENDS Integers, Sequences, FiniteSets

VARIABLES vol, last

vars == <<vol, last>>

(***************************************************************************)
(* Bounds of the model.                                                    *)
(***************************************************************************)
\* largest translation, along one axis, of an input transform
MaxTranslate == 3
\* largest half extent of a box given to a constructor or to setHalfExtents
MaxExtent == 2
\* largest radius a sphere or capsule is constructed with
MaxRadius == 2
\* call-depth guard of the dispatch: a chain of this many nested calls is cut
MaxCallDepth == 3

(***************************************************************************)
(* The objects of the model: two axis aligned boxes, a sphere, an oriented *)
(* box and a capsule.  vol maps each to its fields, or to NoVolume while   *)
(* it is not constructed.                                                  *)
(***************************************************************************)
Box1 == "box1"
Box2 == "box2"
BoxIds == {Box1, Box2}
SphereId == "sphere"
ObbId == "obb"
CapsuleId == "capsule"
VolumeIds == BoxIds \cup {SphereId, ObbId, CapsuleId}

NoVolume == [kind |-> "None"]

(***************************************************************************)
(* glm: the vector and matrix operations the program uses.                 *)
(***************************************************************************)
fabs(x) == IF x < 0 THEN -x ELSE x

\* vec3(v4): the first three components
vec3(v) == <<v[1], v[2], v[3]>>

\* mat3(m4): the upper left 3x3 part, column by column
mat3(m) == <<vec3(m[1]), vec3(m[2]), vec3(m[3])>>

\* mat4(m3): m3 in the upper left, the rest taken from the identity
mat4(m) == << <<m[1][1], m[1][2], m[1][3], 0>>,
              <<m[2][1], m[2][2], m[2][3], 0>>,
              <<m[3][1], m[3][2], m[3][3], 0>>,
              <<0, 0, 0, 1>> >>

vadd(a, b) == <<a[1] + b[1], a[2] + b[2], a[3] + b[3]>>

vsub(a, b) == <<a[1] - b[1], a[2] - b[2], a[3] - b[3]>>

vscale(k, a) == <<k * a[1], k * a[2], k * a[3]>>

dot(a, b) == a[1] * b[1] + a[2] * b[2] + a[3] * b[3]

cross(a, b) == <<a[2] * b[3] - a[3] * b[2],
                 a[3] * b[1] - a[1] * b[3],
                 a[1] * b[2] - a[2] * b[1]>>

Identity == << <<1, 0, 0, 0>>, <<0, 1, 0, 0>>, <<0, 0, 1, 0>>, <<0, 0, 0, 1>> >>

(***************************************************************************)
(* BoundingVolume: the base class every volume derives from.  It holds     *)
(* the transform, which a volume constructed without one starts with at    *)
(* the identity, and derives the center from its translation column.       *)
(***************************************************************************)
DefaultTransform == Identity

getCenter(bv) == bv.transform[4]

(***************************************************************************)
(* AxisAlignedBoundingBox.                                                 *)
(***************************************************************************)
\* AxisAlignedBoundingBox(const vec3& initialHalfExtents)
AABB_construct(initialHalfExtents) ==
    [kind |-> "AABB",
     transform |-> DefaultTransform,
     initialHalfExtents |-> initialHalfExtents,
     halfExtents |-> initialHalfExtents]

\* AxisAlignedBoundingBox(const AxisAlignedBoundingBox& aabb): the two
\* members are initialised from aabb, the base class by its default
\* constructor.
AABB_copy(aabb) ==
    [kind |-> "AABB",
     transform |-> DefaultTransform,
     initialHalfExtents |-> aabb.initialHalfExtents,
     halfExtents |-> aabb.halfExtents]

\* AxisAlignedBoundingBox(AxisAlignedBoundingBox&& aabb): the two members
\* are assigned from aabb (move of a vec3 copies it and leaves the source
\* as it was), the base class is default constructed.
AABB_move(aabb) ==
    [kind |-> "AABB",
     transform |-> DefaultTransform,
     initialHalfExtents |-> aabb.initialHalfExtents,
     halfExtents |-> aabb.halfExtents]

getHalfExtents(self) == self.halfExtents

setHalfExtents_resetsTransform(self, halfExtents) ==
    [self EXCEPT !.initialHalfExtents = halfExtents,
                 !.halfExtents = halfExtents,
                 !.transform = DefaultTransform]

setHalfExtents(self, halfExtents) ==
    [self EXCEPT !.initialHalfExtents = halfExtents,
                 !.halfExtents = halfExtents]

\* one axis of the loop of getSquaredDistancePtPointAABB
AxisExcess(v, lo, hi) ==
    (IF v < lo THEN (lo - v) * (lo - v) ELSE 0)
    + (IF v > hi THEN (v - hi) * (v - hi) ELSE 0)

getSquaredDistancePtPointAABB_minSideOnly(self, p) ==
    LET min == vsub(vec3(getCenter(self)), self.halfExtents)
        side(i) == IF p[i] < min[i] THEN (min[i] - p[i]) * (min[i] - p[i]) ELSE 0
    IN  0 + side(1) + side(2) + side(3)

getSquaredDistancePtPointAABB(self, p) ==
    LET min == vsub(vec3(getCenter(self)), self.halfExtents)
        max == vadd(vec3(getCenter(self)), self.halfExtents)
    IN  0 + AxisExcess(p[1], min[1], max[1])
          + AxisExcess(p[2], min[2], max[2])
          + AxisExcess(p[3], min[3], max[3])

\* the inner loop of update: halfExtents[i] starts at 0 and gains, for each
\* column j, fabs(upperLeft[j][i] * from[j])
RefitAxis(upperLeft, from, i) ==
    0 + fabs(upperLeft[1][i] * from[1])
      + fabs(upperLeft[2][i] * from[2])
      + fabs(upperLeft[3][i] * from[3])

update_fromCurrentExtents(self, transform) ==
    LET upperLeft == mat3(transform)
        center == transform[4]
    IN  [self EXCEPT
           !.halfExtents = <<RefitAxis(upperLeft, self.halfExtents, 1),
                             RefitAxis(upperLeft, self.halfExtents, 2),
                             RefitAxis(upperLeft, self.halfExtents, 3)>>,
           !.transform = [mat4(upperLeft) EXCEPT ![4] = center]]

update_noReset(self, transform) ==
    LET upperLeft == mat3(transform)
        center == transform[4]
    IN  [self EXCEPT
           !.halfExtents =
               <<self.halfExtents[1] + RefitAxis(upperLeft, self.initialHalfExtents, 1),
                 self.halfExtents[2] + RefitAxis(upperLeft, self.initialHalfExtents, 2),
                 self.halfExtents[3] + RefitAxis(upperLeft, self.initialHalfExtents, 3)>>,
           !.transform = [mat4(upperLeft) EXCEPT ![4] = center]]

update_affineCenter(self, transform) ==
    LET upperLeft == mat3(transform)
        center == <<transform[4][1], transform[4][2], transform[4][3], 1>>
    IN  [self EXCEPT
           !.halfExtents = <<RefitAxis(upperLeft, self.initialHalfExtents, 1),
                             RefitAxis(upperLeft, self.initialHalfExtents, 2),
                             RefitAxis(upperLeft, self.initialHalfExtents, 3)>>,
           !.transform = [mat4(upperLeft) EXCEPT ![4] = center]]

update(self, transform) ==
    LET upperLeft == mat3(transform)
        center == transform[4]
    IN  [self EXCEPT
           !.halfExtents = <<RefitAxis(upperLeft, self.initialHalfExtents, 1),
                             RefitAxis(upperLeft, self.initialHalfExtents, 2),
                             RefitAxis(upperLeft, self.initialHalfExtents, 3)>>,
           !.transform = [mat4(upperLeft) EXCEPT ![4] = center]]

(***************************************************************************)
(* The result of an isIntersecting call: whether it returned (done), what  *)
(* it returned, and the calls made, outermost first, each <<receiver,      *)
(* argument>>.                                                             *)
(***************************************************************************)
Answer(self, bv, b) ==
    [done |-> TRUE, result |-> b, calls |-> << <<self, bv>> >>]

Delegated(self, bv, r) ==
    [r EXCEPT !.calls = << <<self, bv>> >> \o r.calls]

CutOff == [done |-> FALSE, result |-> FALSE, calls |-> << >>]

RECURSIVE isIntersecting(_, _, _, _)

(***************************************************************************)
(* AxisAlignedBoundingBox::isIntersecting.  v is the store of volumes,     *)
(* self and bv the places of the receiver and of the argument.             *)
(***************************************************************************)
\* the test of the AABB branch: no axis separates the two boxes
AABB_overlapsAABB_ownExtentsTwice(self, bAABB) ==
    LET center == getCenter(self)
        bCenter == getCenter(bAABB)
    IN  \A i \in 1..3 :
            ~(fabs(center[i] - bCenter[i]) > (self.halfExtents[i] + self.halfExtents[i]))

AABB_overlapsAABB_touchingSeparates(self, bAABB) ==
    LET center == getCenter(self)
        bCenter == getCenter(bAABB)
        bHalfExents == getHalfExtents(bAABB)
    IN  \A i \in 1..3 :
            ~(fabs(center[i] - bCenter[i]) >= (self.halfExtents[i] + bHalfExents[i]))

AABB_overlapsAABB(self, bAABB) ==
    LET center == getCenter(self)
        bCenter == getCenter(bAABB)
        bHalfExents == getHalfExtents(bAABB)
    IN  \A i \in 1..3 :
            ~(fabs(center[i] - bCenter[i]) > (self.halfExtents[i] + bHalfExents[i]))

\* the test of the sphere branch
AABB_overlapsSphere(self, bSphere) ==
    LET sphereCenter == vec3(getCenter(bSphere))
        radius == bSphere.radius
        sqDist == getSquaredDistancePtPointAABB(self, sphereCenter)
    IN  sqDist <= radius * radius

AABB_isIntersecting_noAABBBranch(v, self, bv, depth) ==
    IF v[bv].kind = "Sphere"
    THEN Answer(self, bv, AABB_overlapsSphere(v[self], v[bv]))
    ELSE Delegated(self, bv, isIntersecting(v, bv, self, depth + 1))

AABB_isIntersecting(v, self, bv, depth) ==
    IF v[bv].kind = "Sphere"
    THEN Answer(self, bv, AABB_overlapsSphere(v[self], v[bv]))
    ELSE IF v[bv].kind = "AABB"
    THEN Answer(self, bv, AABB_overlapsAABB(v[self], v[bv]))
    ELSE Delegated(self, bv, isIntersecting(v, bv, self, depth + 1))

(***************************************************************************)
(* Geometry shared by the sphere, the oriented box and the capsule.        *)
(***************************************************************************)
ISqrt(n) == CHOOSE r \in 0..n : r * r <= n /\ (r + 1) * (r + 1) > n

Max2(a, b) == IF a >= b THEN a ELSE b

Min2(a, b) == IF a <= b THEN a ELSE b

Clamp(x, lo, hi) == Max2(lo, Min2(x, hi))

SqLength(a) == dot(a, a)

\* the largest length of a column of the rotation part
maxAxisScale(transform) ==
    LET m == mat3(transform)
    IN  Max2(ISqrt(SqLength(m[1])), Max2(ISqrt(SqLength(m[2])), ISqrt(SqLength(m[3]))))

\* transform applied to the point p
TransformPoint(transform, p) ==
    LET m == mat3(transform)
    IN  vadd(vadd(vscale(p[1], m[1]), vscale(p[2], m[2])),
             vadd(vscale(p[3], m[3]), vec3(transform[4])))

(***************************************************************************)
(* BoundingSphere.                                                         *)
(***************************************************************************)
Sphere_construct(radius) ==
    [kind |-> "Sphere",
     transform |-> DefaultTransform,
     initialRadius |-> radius,
     radius |-> radius]

Sphere_update(self, transform) ==
    [self EXCEPT !.transform = transform,
                 !.radius = self.initialRadius * maxAxisScale(transform)]

getSquaredDistancePtPointSphere(self, p) ==
    SqLength(vsub(p, vec3(getCenter(self))))

(***************************************************************************)
(* OrientedBoundingBox.                                                    *)
(***************************************************************************)
OBB_construct(halfExtents) ==
    [kind |-> "OBB",
     transform |-> DefaultTransform,
     halfExtents |-> halfExtents,
     xAxis |-> <<1, 0, 0>>,
     yAxis |-> <<0, 1, 0>>,
     zAxis |-> <<0, 0, 1>>]

OBB_update(self, transform) ==
    [self EXCEPT !.transform = transform,
                 !.xAxis = mat3(transform)[1],
                 !.yAxis = mat3(transform)[2],
                 !.zAxis = mat3(transform)[3]]

OBB_axes(self) == <<self.xAxis, self.yAxis, self.zAxis>>

\* project p - center onto each axis, clamp to the half extent, rebuild
getClosestPtPointOBB(self, p) ==
    LET c == vec3(getCenter(self))
        d == vsub(p, c)
        along(i) == vscale(Clamp(dot(d, OBB_axes(self)[i]),
                                 -self.halfExtents[i], self.halfExtents[i]),
                           OBB_axes(self)[i])
    IN  vadd(vadd(c, along(1)), vadd(along(2), along(3)))

\* half the width of the box projected on the direction L
OBB_projectedRadius(self, L) ==
    self.halfExtents[1] * fabs(dot(self.xAxis, L))
    + self.halfExtents[2] * fabs(dot(self.yAxis, L))
    + self.halfExtents[3] * fabs(dot(self.zAxis, L))

\* the 15 candidate axes: 3 face normals of each box, 9 cross products
OBB_candidateAxes(a, b) ==
    {OBB_axes(a)[i] : i \in 1..3} \cup {OBB_axes(b)[i] : i \in 1..3}
    \cup {cross(OBB_axes(a)[i], OBB_axes(b)[j]) : i \in 1..3, j \in 1..3}

\* an axis separates when the projected centers are further apart than the
\* projected half widths; a cross product of parallel axes (zero) is skipped
OBB_overlapsOBB(a, b) ==
    LET t == vsub(vec3(getCenter(b)), vec3(getCenter(a)))
    IN  \A L \in OBB_candidateAxes(a, b) :
            \/ SqLength(L) = 0
            \/ ~(fabs(dot(t, L)) > OBB_projectedRadius(a, L) + OBB_projectedRadius(b, L))

OBB_overlapsSphere(self, bSphere) ==
    LET c == vec3(getCenter(bSphere))
    IN  SqLength(vsub(getClosestPtPointOBB(self, c), c)) <= bSphere.radius * bSphere.radius

\* the AABB's distance routine against the OBB's closest point to its center
OBB_overlapsAABB(self, bAABB) ==
    getSquaredDistancePtPointAABB(
        bAABB, getClosestPtPointOBB(self, vec3(getCenter(bAABB)))) <= 0

(***************************************************************************)
(* BoundingCapsule: the segment from a to b and a radius.  The closest     *)
(* point of a segment to a point divides by the squared length of the      *)
(* segment; the division is exact for the segments of the model, which lie *)
(* along a coordinate axis between integer points.                         *)
(***************************************************************************)
Capsule_construct(localA, localB, radius) ==
    [kind |-> "Capsule",
     transform |-> DefaultTransform,
     localA |-> localA, localB |-> localB,
     a |-> localA, b |-> localB,
     radius |-> radius]

Capsule_update(self, transform) ==
    [self EXCEPT !.transform = transform,
                 !.a = TransformPoint(transform, self.localA),
                 !.b = TransformPoint(transform, self.localB)]

getClosestPtPointSegment(a, b, p) ==
    LET d == vsub(b, a)
        dd == dot(d, d)
        t == Clamp(dot(vsub(p, a), d), 0, dd)
    IN  IF dd = 0 THEN a
        ELSE vadd(a, <<(t * d[1]) \div dd, (t * d[2]) \div dd, (t * d[3]) \div dd>>)

SqDistPointSegment(a, b, p) == SqLength(vsub(p, getClosestPtPointSegment(a, b, p)))

\* closest distance between two segments; the closest pair has an end point
\* of one of them unless the segments cross
SqDistSegmentSegment(a1, b1, a2, b2) ==
    Min2(Min2(SqDistPointSegment(a2, b2, a1), SqDistPointSegment(a2, b2, b1)),
         Min2(SqDistPointSegment(a1, b1, a2), SqDistPointSegment(a1, b1, b2)))

Capsule_overlapsCapsule(self, other) ==
    SqDistSegmentSegment(self.a, self.b, other.a, other.b)
        <= (self.radius + other.radius) * (self.radius + other.radius)

Capsule_overlapsSphere(self, bSphere) ==
    SqDistPointSegment(self.a, self.b, vec3(getCenter(bSphere)))
        <= (self.radius + bSphere.radius) * (self.radius + bSphere.radius)

Capsule_overlapsAABB(self, bAABB) ==
    getSquaredDistancePtPointAABB(
        bAABB, getClosestPtPointSegment(self.a, self.b, vec3(getCenter(bAABB))))
        <= self.radius * self.radius

Capsule_overlapsOBB(self, bOBB) ==
    LET q == getClosestPtPointSegment(self.a, self.b, vec3(getCenter(bOBB)))
    IN  SqLength(vsub(getClosestPtPointOBB(bOBB, q), q)) <= self.radius * self.radius

(***************************************************************************)
(* isIntersecting of the other three volumes.  Each tests the argument's   *)
(* type in the order Sphere, AABB, OBB, Capsule and answers for the types  *)
(* it has a test for; for any other it calls the argument with itself.     *)
(***************************************************************************)
Sphere_isIntersecting(v, self, bv, depth) ==
    IF v[bv].kind = "Sphere"
    THEN Answer(self, bv,
                getSquaredDistancePtPointSphere(v[self], vec3(getCenter(v[bv])))
                    <= (v[self].radius + v[bv].radius) * (v[self].radius + v[bv].radius))
    ELSE IF v[bv].kind = "AABB"
    THEN Answer(self, bv,
                getSquaredDistancePtPointAABB(v[bv], vec3(getCenter(v[self])))
                    <= v[self].radius * v[self].radius)
    ELSE IF v[bv].kind = "OBB"
    THEN Answer(self, bv, OBB_overlapsSphere(v[bv], v[self]))
    ELSE IF v[bv].kind = "Capsule"
    THEN Answer(self, bv, Capsule_overlapsSphere(v[bv], v[self]))
    ELSE Delegated(self, bv, isIntersecting(v, bv, self, depth + 1))

OBB_isIntersecting(v, self, bv, depth) ==
    IF v[bv].kind = "Sphere"
    THEN Answer(self, bv, OBB_overlapsSphere(v[self], v[bv]))
    ELSE IF v[bv].kind = "AABB"
    THEN Answer(self, bv, OBB_overlapsAABB(v[self], v[bv]))
    ELSE IF v[bv].kind = "OBB"
    THEN Answer(self, bv, OBB_overlapsOBB(v[self], v[bv]))
    ELSE Delegated(self, bv, isIntersecting(v, bv, self, depth + 1))

Capsule_isIntersecting(v, self, bv, depth) ==
    IF v[bv].kind = "Sphere"
    THEN Answer(self, bv, Capsule_overlapsSphere(v[self], v[bv]))
    ELSE IF v[bv].kind = "AABB"
    THEN Answer(self, bv, Capsule_overlapsAABB(v[self], v[bv]))
    ELSE IF v[bv].kind = "OBB"
    THEN Answer(self, bv, Capsule_overlapsOBB(v[self], v[bv]))
    ELSE IF v[bv].kind = "Capsule"
    THEN Answer(self, bv, Capsule_overlapsCapsule(v[self], v[bv]))
    ELSE Delegated(self, bv, isIntersecting(v, bv, self, depth + 1))

(***************************************************************************)
(* The virtual call bv->isIntersecting(self): the receiver's type picks    *)
(* the implementation.  A chain of more than MaxCallDepth nested calls is  *)
(* cut and reported as not done.                                           *)
(***************************************************************************)
isIntersecting(v, self, bv, depth) ==
    IF depth > MaxCallDepth THEN CutOff
    ELSE CASE v[self].kind = "AABB" -> AABB_isIntersecting(v, self, bv, depth)
           [] v[self].kind = "Sphere" -> Sphere_isIntersecting(v, self, bv, depth)
           [] v[self].kind = "OBB" -> OBB_isIntersecting(v, self, bv, depth)
           [] v[self].kind = "Capsule" -> Capsule_isIntersecting(v, self, bv, depth)

(***************************************************************************)
(* Inputs.                                                                 *)
(***************************************************************************)
Translation(t) == [Identity EXCEPT ![4] = <<t[1], t[2], t[3], 1>>]

\* a quarter turn about the z axis, then a translation by t
RotZ90At(t) ==
    << <<0, 1, 0, 0>>, <<-1, 0, 0, 0>>, <<0, 0, 1, 0>>, <<t[1], t[2], t[3], 1>> >>

\* not orthonormal: a shear of x into y and a mirrored, stretched z
Shear ==
    << <<1, 2, 0, 0>>, <<0, 1, 0, 0>>, <<0, 0, -2, 0>>, <<1, 0, 0, 1>> >>

\* not affine: a bottom row other than (0, 0, 0, 1)
Projective ==
    << <<1, 0, 0, 1>>, <<0, 1, 0, 0>>, <<0, 0, 1, 0>>, <<1, 0, 0, 2>> >>

\* transforms given to the update of a box
Transforms ==
    {Translation(<<x, 0, 0>>) : x \in 0..MaxTranslate}
    \cup {RotZ90At(<<0, MaxTranslate, 0>>), Shear, Projective}

\* rigid transforms: the rotation part is orthonormal
RigidTransforms ==
    {Identity, Translation(<<MaxTranslate, 0, 0>>), RotZ90At(<<0, 1, 0>>)}

\* half extents given to a constructor or to setHalfExtents: nothing in the
\* program rejects a negative one
HalfExtentInputs ==
    {<<1, 1, 1>>, <<MaxExtent, 1, 0>>, <<-1, 1, MaxExtent>>}

PointInputs ==
    {<<0, 0, 0>>, <<MaxTranslate, 0, 0>>, <<-MaxExtent, MaxExtent + 1, 0>>}

Radii == {1, MaxRadius}

Constructed(i) == vol[i].kind # "None"

(***************************************************************************)
(* Operations.  last records the operation a step performed, with its      *)
(* inputs and what it returned; for an update of a box also whether the    *)
(* box was fresh, that is constructed by the step before.                  *)
(***************************************************************************)
Construct(i, h) ==
    /\ ~Constructed(i)
    /\ vol' = [vol EXCEPT ![i] = AABB_construct(h)]
    /\ last' = [op |-> "construct", recv |-> i, h |-> h]

CopyConstruct(i, src) ==
    /\ ~Constructed(i)
    /\ vol[src].kind = "AABB"
    /\ vol' = [vol EXCEPT ![i] = AABB_copy(vol[src])]
    /\ last' = [op |-> "copy", recv |-> i, arg |-> src]

MoveConstruct(i, src) ==
    /\ ~Constructed(i)
    /\ vol[src].kind = "AABB"
    /\ vol' = [vol EXCEPT ![i] = AABB_move(vol[src])]
    /\ last' = [op |-> "move", recv |-> i, arg |-> src]

GetHalfExtents(i) ==
    /\ vol[i].kind = "AABB"
    /\ last' = [op |-> "getHalfExtents", recv |-> i, result |-> getHalfExtents(vol[i])]
    /\ UNCHANGED vol

SetHalfExtents(i, h) ==
    /\ vol[i].kind = "AABB"
    /\ vol' = [vol EXCEPT ![i] = setHalfExtents(vol[i], h)]
    /\ last' = [op |-> "setHalfExtents", recv |-> i, h |-> h]

GetSquaredDistance(i, p) ==
    /\ vol[i].kind = "AABB"
    /\ last' = [op |-> "getSquaredDistancePtPointAABB", recv |-> i, p |-> p,
                result |-> getSquaredDistancePtPointAABB(vol[i], p)]
    /\ UNCHANGED vol

Update(i, T) ==
    /\ vol[i].kind = "AABB"
    /\ vol' = [vol EXCEPT ![i] = update(vol[i], T)]
    /\ last' = [op |-> "update", recv |-> i, T |-> T,
                fresh |-> (last.op = "construct" /\ last.recv = i)]

UpdateSphere(T) ==
    /\ vol[SphereId].kind = "Sphere"
    /\ vol' = [vol EXCEPT ![SphereId] = Sphere_update(vol[SphereId], T)]
    /\ last' = [op |-> "update", recv |-> SphereId, T |-> T, fresh |-> FALSE]

UpdateOBB(T) ==
    /\ vol[ObbId].kind = "OBB"
    /\ vol' = [vol EXCEPT ![ObbId] = OBB_update(vol[ObbId], T)]
    /\ last' = [op |-> "update", recv |-> ObbId, T |-> T, fresh |-> FALSE]

UpdateCapsule(T) ==
    /\ vol[CapsuleId].kind = "Capsule"
    /\ vol' = [vol EXCEPT ![CapsuleId] = Capsule_update(vol[CapsuleId], T)]
    /\ last' = [op |-> "update", recv |-> CapsuleId, T |-> T, fresh |-> FALSE]

\* self.isIntersecting(bv), called from outside: the first call of a chain
IsIntersectingCall(self, bv) ==
    /\ Constructed(self)
    /\ Constructed(bv)
    /\ LET r == isIntersecting(vol, self, bv, 1)
       IN  last' = [op |-> "isIntersecting", recv |-> self, arg |-> bv,
                    done |-> r.done, result |-> r.result, calls |-> r.calls]
    /\ UNCHANGED vol

(***************************************************************************)
(* SpecAABB: the life of axis aligned boxes.  Box1 is constructed; Box2    *)
(* is constructed later, from half extents or from Box1 by copy or move;   *)
(* a sphere stands at the origin.  Boxes are updated with every transform  *)
(* of Transforms, reshaped and queried.                                    *)
(***************************************************************************)
InitAABB ==
    \E h \in HalfExtentInputs, r \in Radii :
        /\ vol = [i \in VolumeIds |->
                    IF i = Box1 THEN AABB_construct(h)
                    ELSE IF i = SphereId THEN Sphere_construct(r)
                    ELSE NoVolume]
        /\ last = [op |-> "construct", recv |-> Box1, h |-> h]

NextAABB ==
    \/ \E h \in HalfExtentInputs : Construct(Box2, h)
    \/ CopyConstruct(Box2, Box1)
    \/ MoveConstruct(Box2, Box1)
    \/ \E i \in BoxIds : GetHalfExtents(i)
    \/ \E i \in BoxIds, h \in HalfExtentInputs : SetHalfExtents(i, h)
    \/ \E i \in BoxIds, p \in PointInputs : GetSquaredDistance(i, p)
    \/ \E i \in BoxIds, T \in Transforms : Update(i, T)
    \/ \E i \in BoxIds, j \in BoxIds \cup {SphereId} : IsIntersectingCall(i, j)

SpecAABB == InitAABB /\ [][NextAABB]_vars

(***************************************************************************)
(* Spec: the four kinds of volume together.  Two boxes, a sphere, an       *)
(* oriented box and a capsule are constructed, then updated and queried    *)
(* pairwise in any order.                                                  *)
(***************************************************************************)
DispatchHalfExtents == {<<1, 1, 1>>, <<MaxExtent, 1, 0>>}

\* transforms given to the sphere, the oriented box and the capsule
PlacedTransforms == {Identity, RotZ90At(<<0, 2 * MaxTranslate, 0>>)}

Init ==
    \E h \in DispatchHalfExtents, r \in {MaxRadius} :
        /\ vol = [i \in VolumeIds |->
                    CASE i = Box1 -> AABB_construct(<<1, 1, 1>>)
                      [] i = Box2 -> AABB_construct(h)
                      [] i = SphereId -> Sphere_construct(r)
                      [] i = ObbId -> OBB_construct(<<1, MaxExtent, 1>>)
                      [] i = CapsuleId ->
                            Capsule_construct(<<0, -1, 0>>, <<0, 1, 0>>, 1)]
        /\ last = [op |-> "construct", recv |-> CapsuleId]

Next ==
    \/ \E i \in BoxIds : GetHalfExtents(i)
    \/ \E i \in BoxIds, h \in DispatchHalfExtents : SetHalfExtents(i, h)
    \/ \E i \in BoxIds, p \in PointInputs : GetSquaredDistance(i, p)
    \/ \E i \in BoxIds, T \in RigidTransforms : Update(i, T)
    \/ \E T \in PlacedTransforms : UpdateSphere(T)
    \/ \E T \in PlacedTransforms : UpdateOBB(T)
    \/ \E T \in PlacedTransforms : UpdateCapsule(T)
    \/ \E i \in VolumeIds, j \in VolumeIds : IsIntersectingCall(i, j)

Spec == Init /\ [][Next]_vars

(***************************************************************************)
(* What the properties below compare the program with, written out from    *)
(* the fields.                                                             *)
(***************************************************************************)
IsBox(i) == vol[i].kind = "AABB"

BoxCenter(i) == <<vol[i].transform[4][1], vol[i].transform[4][2], vol[i].transform[4][3]>>

\* sum over j of |R[j][i] * h[j]|, R the rotation part of the transform m
ConservativeExtent(m, h, i) ==
    fabs(m[1][i] * h[1]) + fabs(m[2][i] * h[2]) + fabs(m[3][i] * h[3])

ConservativeExtents(m, h) ==
    <<ConservativeExtent(m, h, 1), ConservativeExtent(m, h, 2), ConservativeExtent(m, h, 3)>>

\* the transform a box stores for the input m: the rotation part of m, a
\* bottom row of zeros under it, and the last column of m
StoredTransform(m) ==
    << <<m[1][1], m[1][2], m[1][3], 0>>,
       <<m[2][1], m[2][2], m[2][3], 0>>,
       <<m[3][1], m[3][2], m[3][3], 0>>,
       m[4] >>

\* squared excess of the point p outside the box i, summed over the axes
SquaredExcess(i, p) ==
    LET lo(k) == BoxCenter(i)[k] - vol[i].halfExtents[k]
        hi(k) == BoxCenter(i)[k] + vol[i].halfExtents[k]
        ex(k) == (IF p[k] < lo(k) THEN (lo(k) - p[k]) * (lo(k) - p[k]) ELSE 0)
                 + (IF p[k] > hi(k) THEN (p[k] - hi(k)) * (p[k] - hi(k)) ELSE 0)
    IN  ex(1) + ex(2) + ex(3)

InClosedBox(i, p) ==
    \A k \in 1..3 : /\ BoxCenter(i)[k] - vol[i].halfExtents[k] <= p[k]
                    /\ p[k] <= BoxCenter(i)[k] + vol[i].halfExtents[k]

NonNegative(h) == h[1] >= 0 /\ h[2] >= 0 /\ h[3] >= 0

(***************************************************************************)
(* Properties of the four kinds together (Spec).                           *)
(***************************************************************************)
\* C1: isIntersecting is symmetric: for any two constructed volumes a and b,
\* of any of the four kinds and in any reachable state, a.isIntersecting(b)
\* and b.isIntersecting(a) both return and return the same boolean.
C1_Symmetric ==
    \A a \in VolumeIds, b \in VolumeIds :
        (a # b /\ Constructed(a) /\ Constructed(b)) =>
            LET ab == isIntersecting(vol, a, b, 1)
                ba == isIntersecting(vol, b, a, 1)
            IN  ab.done /\ ba.done /\ ab.result = ba.result

\* a box was asked about the other box, of other half extents, which it
\* does not meet, while it meets the oriented box
C1_Witness ==
    /\ last.op = "isIntersecting"
    /\ last.recv \in BoxIds /\ last.arg \in BoxIds /\ last.recv # last.arg
    /\ vol[Box1].halfExtents # vol[Box2].halfExtents
    /\ last.done /\ ~last.result
    /\ isIntersecting(vol, last.recv, ObbId, 1).result

\* C2: every isIntersecting call between two constructed volumes returns
\* after at most one delegation: a box answers a sphere or a box itself
\* (the chain of calls is the one call), and for an oriented box or a
\* capsule it calls the argument once, with itself as the argument, and
\* the argument answers without calling back.
C2_OneHop ==
    \A a \in VolumeIds, b \in VolumeIds :
        (Constructed(a) /\ Constructed(b)) =>
            LET r == isIntersecting(vol, a, b, 1)
            IN  /\ r.done
                /\ Len(r.calls) <= 2
                /\ r.calls[1] = <<a, b>>
                /\ IsBox(a) =>
                      IF vol[b].kind \in {"Sphere", "AABB"}
                      THEN r.calls = << <<a, b>> >>
                      ELSE r.calls = << <<a, b>>, <<b, a>> >>

\* a box was asked about the capsule and the call returned through the
\* capsule's own isIntersecting
C2_Witness ==
    /\ last.op = "isIntersecting"
    /\ IsBox(last.recv)
    /\ vol[last.arg].kind = "Capsule"
    /\ last.done
    /\ last.calls = << <<last.recv, CapsuleId>>, <<CapsuleId, last.recv>> >>

\* C8: the stored transform of a box changes only in a step that is an
\* update of that box, and a step that is a query (getHalfExtents,
\* getSquaredDistancePtPointAABB, isIntersecting, delegating or not) leaves
\* every field of every volume as it was.
C8_Frame ==
    [][/\ \A i \in BoxIds :
            (IsBox(i) /\ vol'[i].transform # vol[i].transform)
                => (last'.op = "update" /\ last'.recv = i)
       /\ (last'.op \in {"getHalfExtents", "getSquaredDistancePtPointAABB",
                         "isIntersecting"})
                => vol' = vol]_vars

\* a box that has been moved was asked about the oriented box and delegated
C8_Witness ==
    /\ last.op = "isIntersecting"
    /\ IsBox(last.recv)
    /\ vol[last.recv].transform # DefaultTransform
    /\ Len(last.calls) = 2

\* C3: in every reachable state each box's halfExtents[i] is the sum over j
\* of |R[j][i] * initialHalfExtents[j]|, R the rotation part of the
\* transform the box stores.
C3_ExtentsFollowTransform ==
    \A b \in BoxIds :
        IsBox(b) =>
            vol[b].halfExtents =
                ConservativeExtents(vol[b].transform, vol[b].initialHalfExtents)

(***************************************************************************)
(* Properties of the boxes (SpecAABB).                                     *)
(***************************************************************************)
\* C4: a step update(T) of a box leaves it with halfExtents[i] the sum over
\* j of |T[j][i] * initialHalfExtents[j]|, with initialHalfExtents as they
\* were and with the transform stored for T: a state that depends on T and
\* initialHalfExtents alone, whatever came before; and update(T) right after
\* update(T) changes nothing.
C4_UpdateFromInitial ==
    [][\A b \in BoxIds :
          (IsBox(b) /\ last'.op = "update" /\ last'.recv = b) =>
              /\ vol'[b] =
                    [kind |-> "AABB",
                     transform |-> StoredTransform(last'.T),
                     initialHalfExtents |-> vol[b].initialHalfExtents,
                     halfExtents |->
                         ConservativeExtents(last'.T, vol[b].initialHalfExtents)]
              /\ (last.op = "update" /\ last.recv = b /\ last.T = last'.T)
                    => vol'[b] = vol[b]]_vars

\* a box reshaped by a shear: its extents are no longer the initial ones
C4_Witness ==
    /\ last.op = "update"
    /\ last.T = Shear
    /\ ~last.fresh
    /\ vol[last.recv].halfExtents # vol[last.recv].initialHalfExtents

\* C5: after update(T) of a box the last column of the stored transform is
\* the last column of T, w included, so the center the queries read is T's
\* translation: with half extents that are not negative the box is at
\* distance 0 from it.
C5_CenterIsTranslation ==
    (last.op = "update" /\ IsBox(last.recv)) =>
        /\ vol[last.recv].transform[4] = last.T[4]
        /\ getCenter(vol[last.recv]) = last.T[4]
        /\ NonNegative(vol[last.recv].halfExtents) =>
              getSquaredDistancePtPointAABB(
                  vol[last.recv],
                  <<last.T[4][1], last.T[4][2], last.T[4][3]>>) = 0

\* a box updated with a transform whose last column has w = 2
C5_Witness ==
    /\ last.op = "update"
    /\ IsBox(last.recv)
    /\ last.T[4][4] = 2
    /\ vol[last.recv].transform[4][4] = 2

\* C6: for two boxes a and b, a.isIntersecting(b) is true exactly when on
\* every axis i |a.center[i] - b.center[i]| <= a.halfExtents[i] +
\* b.halfExtents[i]; so boxes of half extents (1,1,1) at (0,0,0) and (3,0,0)
\* do not intersect, and at (0,0,0) and (2,0,0) they do.
C6_IntervalOverlap ==
    \A a \in BoxIds, b \in BoxIds :
        (IsBox(a) /\ IsBox(b)) =>
            LET r == isIntersecting(vol, a, b, 1)
                unit == vol[a].halfExtents = <<1, 1, 1>> /\ vol[b].halfExtents = <<1, 1, 1>>
            IN  /\ r.done
                /\ r.result <=>
                      \A i \in 1..3 :
                          fabs(BoxCenter(a)[i] - BoxCenter(b)[i])
                              <= vol[a].halfExtents[i] + vol[b].halfExtents[i]
                /\ (unit /\ BoxCenter(a) = <<0, 0, 0>> /\ BoxCenter(b) = <<3, 0, 0>>)
                      => ~r.result
                /\ (unit /\ BoxCenter(a) = <<0, 0, 0>> /\ BoxCenter(b) = <<2, 0, 0>>)
                      => r.result

\* the boundary case was asked: unit boxes at (0,0,0) and (2,0,0) intersect
C6_Witness ==
    /\ last.op = "isIntersecting"
    /\ IsBox(last.recv) /\ IsBox(last.arg)
    /\ vol[last.recv].halfExtents = <<1, 1, 1>>
    /\ vol[last.arg].halfExtents = <<1, 1, 1>>
    /\ BoxCenter(last.recv) = <<0, 0, 0>>
    /\ BoxCenter(last.arg) = <<2, 0, 0>>
    /\ last.result

C9_SphereTest ==
    \A a \in BoxIds :
        (IsBox(a) /\ vol[SphereId].kind = "Sphere") =>
            LET r == isIntersecting(vol, a, SphereId, 1)
                c == <<vol[SphereId].transform[4][1], vol[SphereId].transform[4][2],
                       vol[SphereId].transform[4][3]>>
            IN  /\ r.done
                /\ r.calls = << <<a, SphereId>> >>
                /\ r.result <=>
                      SquaredExcess(a, c) <= vol[SphereId].radius * vol[SphereId].radius
                /\ \A p \in PointInputs \cup {c} :
                      /\ getSquaredDistancePtPointAABB(vol[a], p) = SquaredExcess(a, p)
                      /\ NonNegative(vol[a].halfExtents) =>
                            (getSquaredDistancePtPointAABB(vol[a], p) = 0
                                <=> InClosedBox(a, p))

\* a box was asked about the sphere, whose center is outside the box at a
\* squared distance of exactly radius * radius: they intersect
C9_Witness ==
    /\ last.op = "isIntersecting"
    /\ IsBox(last.recv)
    /\ last.arg = SphereId
    /\ last.result
    /\ NonNegative(vol[last.recv].halfExtents)
    /\ SquaredExcess(last.recv, <<vol[SphereId].transform[4][1],
                                   vol[SphereId].transform[4][2],
                                   vol[SphereId].transform[4][3]>>)
           = vol[SphereId].radius * vol[SphereId].radius

=============================================================================
